---- MODULE Spec2Model ----
(***************************************************************************)
(* Model of the content pipeline of src/pages/api/process.ts (the request  *)
(* handler of POST /api/process and the functions it awaits) and of the    *)
(* form of src/pages/index.tsx (the Presentation Client).                  *)
(*                                                                         *)
(* JavaScript values are records [t, v]: t is the JS type and v the        *)
(* string's content as a sequence of text tokens (a token stands for a     *)
(* literal piece of text, " " for white space).  An action is the code     *)
(* that runs between two awaits: it consumes the answer of the awaited     *)
(* collaborator call and runs up to the next call or to the response.      *)
(***************************************************************************)
EXTENDS Integers, Sequences, FiniteSets, TLC

(***************************************************************************)
(* JavaScript values                                                       *)
(***************************************************************************)
Undefined == [t |-> "undefined", v |-> <<>>]
Null == [t |-> "null", v |-> <<>>]
Str(s) == [t |-> "string", v |-> s]
Bool(b) == [t |-> "boolean", v |-> IF b THEN <<"true">> ELSE <<"false">>]
Num(n) == [t |-> "number", v |-> <<ToString(n)>>]

\* JS truthiness, as used by !x, x || y and if (x)
Truthy(x) ==
  CASE x.t = "undefined" -> FALSE
    [] x.t = "null" -> FALSE
    [] x.t = "string" -> x.v # <<>>
    [] x.t = "boolean" -> x.v = <<"true">>
    [] x.t = "number" -> x.v # <<"0">>
    [] OTHER -> TRUE

\* x || y
Or(x, y) == IF Truthy(x) THEN x ELSE y

\* a JS object with the members o
Obj(o) == [t |-> "object", v |-> o]

\* the text a template literal `${x}` inserts
ToStr(x) ==
  CASE x.t = "undefined" -> <<"undefined">>
    [] x.t = "null" -> <<"null">>
    [] OTHER -> x.v

IsSpace(c) == c = " "

RECURSIVE TrimStart(_)
TrimStart(s) ==
  IF s = <<>> THEN <<>>
  ELSE IF IsSpace(Head(s)) THEN TrimStart(Tail(s)) ELSE s

RECURSIVE TrimEnd(_)
TrimEnd(s) ==
  IF s = <<>> THEN <<>>
  ELSE IF IsSpace(s[Len(s)]) THEN TrimEnd(SubSeq(s, 1, Len(s) - 1)) ELSE s

\* String.prototype.trim on a token sequence
Trim(s) == TrimEnd(TrimStart(s))

\* JSON.stringify of an object: a key whose value is undefined is left out
JSONstringify(o) == [k \in {j \in DOMAIN o : o[j] # Undefined} |-> o[k]]

\* reading a key of a parsed JSON object: a missing key reads as undefined
Get(o, k) == IF k \in DOMAIN o THEN o[k] ELSE Undefined

(***************************************************************************)
(* Inputs: requests, configuration, answers of the collaborators           *)
(***************************************************************************)
Methods == {"POST", "GET"}

\* values of body.type; "video" stands for any string that is no variant
TypeValues == {Undefined, Str(<<>>), Str(<<"text">>), Str(<<"link">>),
               Str(<<"voice">>), Str(<<"video">>)}

PayloadValues == {Undefined, Str(<<>>), Str(<<"p">>)}

FlagValues == {Undefined, Bool(FALSE), Bool(TRUE)}

Bodies == [type : TypeValues, text : PayloadValues, voiceUrl : PayloadValues,
           link : PayloadValues, postToBlogger : FlagValues]

NoBody == [type |-> Undefined, text |-> Undefined, voiceUrl |-> Undefined,
           link |-> Undefined, postToBlogger |-> Undefined]

Requests == [method : Methods, hasBody : {TRUE}, body : Bodies]
              \cup [method : Methods, hasBody : {FALSE}, body : {NoBody}]

EnvValues == {Undefined, Str(<<"cfg">>)}

Envs == [GOOGLE_CLIENT_ID : EnvValues, GOOGLE_CLIENT_SECRET : EnvValues,
         GOOGLE_REFRESH_TOKEN : EnvValues, BLOGGER_BLOG_ID : EnvValues]

\* message of an error thrown by a collaborator (network failure, API error)
ThrownMessages == {Str(<<>>), Str(<<"collaborator failed">>)}

\* HTTP statuses a collaborator answers with
Statuses == {200, 404, 500}

\* ResOk without the test of the status: every answer counts as a success
ResOkAlways(status) == TRUE

\* res.ok
ResOk(status) == status >= 200 /\ status <= 299

\* the kind of answer an HTTP status is
StatusAnswer(status, otherwise) == IF status \in 200..299 THEN otherwise ELSE "status"

\* a page as the link fetch, JSDOM and Readability deliver it: the article's
\* textContent (null when Readability finds no article) and the body's
PageArticles == {Null, Str(<<" ">>), Str(<<" ", "article", " ">>)}
PageBodies == {Str(<<>>), Str(<<"body", " ">>)}

\* the text field of a transcription answer
TranscriptTexts == {Undefined, Str(<<>>), Str(<<"fala">>)}

(***************************************************************************)
(* State                                                                   *)
(***************************************************************************)
VARIABLES
  req,           \* the request: method, body
  env,           \* process.env
  pc,            \* the await the handler is suspended at
  calls,         \* the collaborator calls made so far, in order
  fetched,       \* the Response of the last fetch that answered: its status
  sourceText, title, summaryHtml, imageDataUrl, html,  \* handler locals
  headers,       \* response headers set by res.setHeader
  responses,     \* the responses sent by res.status(..).json(..), in order
  inputType, text, voiceUrl, link, posting, result, error,  \* Home state
  cpc,           \* the await handleSubmit is suspended at
  sent,          \* body of the request the last submit sent
  reply,         \* the reply handleSubmit is reading
  suspended,     \* the request that is not running: what its call of handler holds
  running        \* which of the two requests the event loop is running

handlerVars == <<req, env, pc, calls, fetched, sourceText, title, summaryHtml,
                 imageDataUrl, html, headers, responses>>
homeVars == <<inputType, text, voiceUrl, link, posting, result, error,
              cpc, sent, reply>>
loopVars == <<suspended, running>>
vars == <<handlerVars, homeVars, loopVars>>

locals == <<sourceText, title, summaryHtml, imageDataUrl, html>>

\* res of handleSubmit before fetch has answered
NoReply == [ok |-> FALSE, body |-> <<>>]

\* no fetch has answered yet
NoResponse == [status |-> 0]

InitHandler ==
  /\ req \in Requests
  /\ env \in Envs
  /\ pc = "start"
  /\ calls = <<>>
  /\ fetched = NoResponse
  /\ sourceText = Undefined
  /\ title = Undefined
  /\ summaryHtml = Undefined
  /\ imageDataUrl = Undefined
  /\ html = Undefined
  /\ headers = {}
  /\ responses = <<>>

InitHome ==
  /\ inputType = "text"
  /\ text = <<>>
  /\ voiceUrl = <<>>
  /\ link = <<>>
  /\ posting = FALSE
  /\ result = Null
  /\ error = Null
  /\ cpc = "idle"
  /\ sent = <<>>
  /\ reply = NoReply

\* what a call of handler holds when it starts on the request r: its arguments
\* req and res and its locals, which are declared inside handler
StartOf(r) ==
  [req |-> r, pc |-> "start", calls |-> <<>>, fetched |-> NoResponse,
   sourceText |-> Undefined, title |-> Undefined, summaryHtml |-> Undefined,
   imageDataUrl |-> Undefined, html |-> Undefined, headers |-> {},
   responses |-> <<>>]

\* one request only: no other call of handler is suspended
InitLoop ==
  /\ running = 1
  /\ suspended = StartOf([method |-> "GET", hasBody |-> FALSE, body |-> NoBody])

Init == InitHandler /\ InitHome /\ InitLoop

(***************************************************************************)
(* The handler's building blocks                                           *)
(***************************************************************************)
\* res.status(status).json(o)
Respond(status, o) ==
  /\ responses' = Append(responses, [status |-> status, body |-> JSONstringify(o)])
  /\ pc' = "done"

\* the catch block of handler: 500 with err.message || 'Erro interno'
Catch(message) ==
  Respond(500, [error |-> Or(message, Str(<<"Erro interno">>))])

\* the last call, with the kind of answer it got: "threw" (the call rejected),
\* "status" (a non-success HTTP status), "notJSON" (a body that does not parse),
\* "incomplete" (an answer that lacks what the caller asked for), "ok"
Settle(answer) == [calls EXCEPT ![Len(calls)].answer = answer]

NewCall(name, arg) == [name |-> name, arg |-> arg, answer |-> "pending"]

\* ValidationError testing the payload fields for undefined only, so that an
\* empty string passes
ValidationErrorAbsentOnly(r) ==
  IF ~r.hasBody \/ ~Truthy(r.body.type) THEN Str(<<"Parametros invalidos">>)
  ELSE IF r.body.type = Str(<<"text">>) /\ r.body.text = Undefined
    THEN Str(<<"Texto ausente">>)
  ELSE IF r.body.type = Str(<<"link">>) /\ r.body.link = Undefined
    THEN Str(<<"Link ausente">>)
  ELSE IF r.body.type = Str(<<"voice">>) /\ r.body.voiceUrl = Undefined
    THEN Str(<<"voiceUrl ausente">>)
  ELSE Undefined

\* the 400 message of the validation of handler, undefined for a body that passes
ValidationError(r) ==
  IF ~r.hasBody \/ ~Truthy(r.body.type) THEN Str(<<"Parametros invalidos">>)
  ELSE IF r.body.type = Str(<<"text">>) /\ ~Truthy(r.body.text)
    THEN Str(<<"Texto ausente">>)
  ELSE IF r.body.type = Str(<<"link">>) /\ ~Truthy(r.body.link)
    THEN Str(<<"Link ausente">>)
  ELSE IF r.body.type = Str(<<"voice">>) /\ ~Truthy(r.body.voiceUrl)
    THEN Str(<<"voiceUrl ausente">>)
  ELSE Undefined

\* the prompt of summarizeFinancePortuguese
SummaryPrompt(input) ==
  Str(<<"Voce e um redator financeiro em PT-BR. ... CONTEUDO:\n\"\"\"\n">>
        \o ToStr(input) \o <<"\n\"\"\"">>)

\* the prompt of generateImageBase64
ImagePrompt(prompt) ==
  Str(<<"Ilustracao editorial minimalista e limpa sobre financas: ">>
        \o ToStr(prompt) \o <<". Estilo moderno, cores sobrias, sem texto.">>)

\* handler calls summarizeFinancePortuguese(input), which awaits the chat completion
StartSummarize(cs, input) ==
  /\ sourceText' = input
  /\ calls' = Append(cs, NewCall("chat", [prompt |-> SummaryPrompt(input)]))
  /\ pc' = "chat"
  /\ UNCHANGED <<title, summaryHtml, imageDataUrl, html, headers, responses>>

\* Fail with one retry: the failed call is made a second time before the error
\* is given up on
FailAfterRetry(answer, message) ==
  IF Cardinality({i \in DOMAIN calls : calls[i].name = calls[Len(calls)].name}) = 1
    THEN /\ calls' = Append(Settle(answer),
                        NewCall(calls[Len(calls)].name, calls[Len(calls)].arg))
         /\ UNCHANGED <<pc, responses, locals, headers>>
    ELSE /\ calls' = Settle(answer)
         /\ Catch(message)
         /\ UNCHANGED <<locals, headers>>

\* a throw inside the try block of handler, while the last call is answered
Fail(answer, message) ==
  /\ calls' = Settle(answer)
  /\ Catch(message)
  /\ UNCHANGED <<locals, headers>>

(***************************************************************************)
(* handler, up to its first await                                          *)
(***************************************************************************)
\* the 405 branch without its res.setHeader
NoAllowHeader == {}

\* res.setHeader('Allow', ['POST'])
AllowHeader == {<<"Allow", <<"POST">>>>}

\* handler whose validation answers 400 without returning: the pipeline goes on
\* with an empty sourceText
handlerWithoutReturn ==
  /\ pc = "start"
  /\ IF req.method # "POST"
       THEN /\ headers' = AllowHeader
            /\ Respond(405, [error |-> Str(<<"Method not allowed">>)])
            /\ UNCHANGED <<calls, locals>>
     ELSE IF ValidationError(req) # Undefined
       THEN /\ responses' = Append(responses,
                               [status |-> 400,
                                body |-> JSONstringify([error |-> ValidationError(req)])])
            /\ sourceText' = Str(<<>>)
            /\ calls' = Append(calls, NewCall("chat", [prompt |-> SummaryPrompt(Str(<<>>))]))
            /\ pc' = "chat"
            /\ UNCHANGED <<title, summaryHtml, imageDataUrl, html, headers>>
     ELSE IF req.body.type = Str(<<"text">>)
       THEN StartSummarize(calls, req.body.text)
     ELSE IF req.body.type = Str(<<"link">>)
       THEN /\ sourceText' = Str(<<>>)
            /\ calls' = Append(calls, NewCall("linkFetch", [url |-> req.body.link]))
            /\ pc' = "linkFetch"
            /\ UNCHANGED <<title, summaryHtml, imageDataUrl, html, headers, responses>>
     ELSE IF req.body.type = Str(<<"voice">>)
       THEN /\ sourceText' = Str(<<>>)
            /\ calls' = Append(calls, NewCall("audioFetch", [url |-> req.body.voiceUrl]))
            /\ pc' = "audioFetch"
            /\ UNCHANGED <<title, summaryHtml, imageDataUrl, html, headers, responses>>
     ELSE StartSummarize(calls, Str(<<>>))
  /\ UNCHANGED <<req, env, fetched, homeVars, loopVars>>

handler ==
  /\ pc = "start"
  /\ IF req.method # "POST"
       THEN /\ headers' = AllowHeader
            /\ Respond(405, [error |-> Str(<<"Method not allowed">>)])
            /\ UNCHANGED <<calls, locals>>
     ELSE IF ValidationError(req) # Undefined
       THEN /\ Respond(400, [error |-> ValidationError(req)])
            /\ UNCHANGED <<calls, locals, headers>>
     ELSE IF req.body.type = Str(<<"text">>)
       THEN StartSummarize(calls, req.body.text)
     ELSE IF req.body.type = Str(<<"link">>)
       THEN /\ sourceText' = Str(<<>>)
            /\ calls' = Append(calls, NewCall("linkFetch", [url |-> req.body.link]))
            /\ pc' = "linkFetch"
            /\ UNCHANGED <<title, summaryHtml, imageDataUrl, html, headers, responses>>
     ELSE IF req.body.type = Str(<<"voice">>)
       THEN /\ sourceText' = Str(<<>>)
            /\ calls' = Append(calls, NewCall("audioFetch", [url |-> req.body.voiceUrl]))
            /\ pc' = "audioFetch"
            /\ UNCHANGED <<title, summaryHtml, imageDataUrl, html, headers, responses>>
     ELSE StartSummarize(calls, Str(<<>>))
  /\ UNCHANGED <<req, env, fetched, homeVars, loopVars>>

(***************************************************************************)
(* Content Normalizer                                                      *)
(***************************************************************************)
\* the text fetchTextFromLink returns for a page
ExtractText(article, bodyText) ==
  IF Truthy(article) /\ Len(Trim(article.v)) > 0
    THEN Str(Trim(article.v))
    ELSE Str(Trim(Or(bodyText, Str(<<>>)).v))

\* a fetch answered with the status st, which the caller tests before it reads
\* the body: a non-success status throws, a success suspends on the body
FetchAnswered(st, message, waitBody) ==
  /\ fetched' = [status |-> st]
  /\ IF ~ResOk(st)
       THEN Fail("status", Str(<<message, ToString(st)>>))
       ELSE /\ pc' = waitBody
            /\ UNCHANGED <<calls, locals, headers, responses>>

\* fetchTextFromLink resumes with the answer of fetch(url)
fetchTextFromLink_fetch ==
  /\ pc = "linkFetch"
  /\ \/ /\ \E m \in ThrownMessages : Fail("threw", m)
        /\ UNCHANGED fetched
     \/ \E st \in Statuses : FetchAnswered(st, "Falha ao buscar link: ", "linkText")
  /\ UNCHANGED <<req, env, homeVars, loopVars>>

\* fetchTextFromLink resumes with the body of the page, res.text(), and returns
\* its text to handler, which goes on to summarizeFinancePortuguese
fetchTextFromLink_text ==
  /\ pc = "linkText"
  /\ \/ \E m \in ThrownMessages : Fail("threw", m)
     \/ \E a \in PageArticles, b \in PageBodies :
          StartSummarize(Settle(StatusAnswer(fetched.status,
                                             IF ExtractText(a, b) = Str(<<>>)
                                               THEN "incomplete" ELSE "ok")),
                         ExtractText(a, b))
  /\ UNCHANGED <<req, env, fetched, homeVars, loopVars>>

\* transcribeFromUrl resumes with the answer of fetch(voiceUrl)
transcribeFromUrl_fetch ==
  /\ pc = "audioFetch"
  /\ \/ /\ \E m \in ThrownMessages : Fail("threw", m)
        /\ UNCHANGED fetched
     \/ \E st \in Statuses : FetchAnswered(st, "Falha ao baixar audio: ", "audioBuffer")
  /\ UNCHANGED <<req, env, homeVars, loopVars>>

\* transcribeFromUrl resumes with the body of the audio, res.arrayBuffer(), and
\* awaits the transcription
transcribeFromUrl_arrayBuffer ==
  /\ pc = "audioBuffer"
  /\ \/ \E m \in ThrownMessages : Fail("threw", m)
     \/ /\ calls' = Append(Settle(StatusAnswer(fetched.status, "ok")),
                           NewCall("transcription",
                                   [model |-> Str(<<"whisper-1">>),
                                    language |-> Str(<<"pt">>)]))
        /\ pc' = "transcription"
        /\ UNCHANGED <<locals, headers, responses>>
  /\ UNCHANGED <<req, env, fetched, homeVars, loopVars>>

\* transcribeFromUrl resumes with the answer of the transcription service
transcribeFromUrl ==
  /\ pc = "transcription"
  /\ \/ \E m \in ThrownMessages : Fail("threw", m)
     \/ \E t \in TranscriptTexts :
          StartSummarize(Settle(IF Truthy(t) THEN "ok" ELSE "incomplete"), t)
  /\ UNCHANGED <<req, env, fetched, homeVars, loopVars>>

(***************************************************************************)
(* Summarizer                                                              *)
(***************************************************************************)
\* the values of the members a chat answer can carry
MemberValue == [title |-> Str(<<"Titulo">>), html |-> Str(<<"<p>", "resumo", "</p>">>),
                error |-> Str(<<"Texto ausente">>)]

\* message.content of a chat completion, as a sequence of JSON tokens
ChatContents == {Null, Str(<<"not json">>), Str(<<"null">>), Str(<<"{", "}">>),
                 Str(<<"{", "title", "}">>), Str(<<"{", "html", "}">>),
                 Str(<<"{", "title", "html", "}">>)}

\* JSON.parse of a token sequence: an object, null, or a SyntaxError
JSONparse(s) ==
  IF s = <<"null">> THEN [kind |-> "null", obj |-> <<>>]
  ELSE IF /\ Len(s) >= 2
          /\ s[1] = "{"
          /\ s[Len(s)] = "}"
          /\ \A i \in 2..(Len(s) - 1) : s[i] \in DOMAIN MemberValue
    THEN [kind |-> "object",
          obj |-> [k \in {s[i] : i \in 2..(Len(s) - 1)} |-> MemberValue[k]]]
  ELSE [kind |-> "error", obj |-> <<>>]

\* what summarizeFinancePortuguese does with message.content: the object it
\* returns, or the error it throws
SummaryOf(content) ==
  LET parsed == JSONparse(Or(content, Str(<<"{", "}">>)).v)
  IN  IF parsed.kind = "error"
        THEN [threw |-> TRUE, message |-> Str(<<"Unexpected token in JSON">>),
              title |-> Undefined, summaryHtml |-> Undefined]
      ELSE IF parsed.kind = "null"
        THEN [threw |-> TRUE, message |-> Str(<<"Cannot read properties of null (reading 'title')">>),
              title |-> Undefined, summaryHtml |-> Undefined]
      ELSE [threw |-> FALSE, message |-> Undefined,
            title |-> Get(parsed.obj, "title"),
            summaryHtml |-> Get(parsed.obj, "html")]

\* the kind of answer a chat content is: JSON with both keys, JSON without
\* them, or no JSON
ChatAnswer(content) ==
  LET parsed == JSONparse(Or(content, Str(<<"{", "}">>)).v)
  IN  IF parsed.kind = "error" THEN "notJSON"
      ELSE IF parsed.kind = "object" /\ DOMAIN parsed.obj = {"title", "html"} THEN "ok"
      ELSE "incomplete"

\* summarizeFinancePortuguese resumes with the answer of the chat completion;
\* handler goes on to generateImageBase64(title)
summarizeFinancePortuguese ==
  /\ pc = "chat"
  /\ \/ \E m \in ThrownMessages : Fail("threw", m)
     \/ \E content \in ChatContents :
          LET r == SummaryOf(content)
          IN  IF r.threw
                THEN Fail(ChatAnswer(content), r.message)
                ELSE /\ title' = r.title
                     /\ summaryHtml' = r.summaryHtml
                     /\ calls' = Append(Settle(ChatAnswer(content)),
                                   NewCall("image", [prompt |-> ImagePrompt(r.title)]))
                     /\ pc' = "image"
                     /\ UNCHANGED <<sourceText, imageDataUrl, html, headers, responses>>
  /\ UNCHANGED <<req, env, fetched, homeVars, loopVars>>

(***************************************************************************)
(* Illustrator and Publisher                                               *)
(***************************************************************************)
\* res.data?.[0]?.b64_json of an image answer
ImagePayloads == {Undefined, Str(<<>>), Str(<<"iVBORw0KGgo">>)}

\* the html handler builds from the image and the summary
BuildHtml(image, t, summary) ==
  Str(<<"\n      <div style=\"text-align:center;margin:0 0 16px 0\">\n        <img src=\"">>
        \o ToStr(image) \o <<"\" alt=\"">> \o ToStr(t)
        \o <<"\" style=\"max-width:100%;height:auto\" />\n      </div>\n      ">>
        \o ToStr(summary) \o <<"\n    ">>)

\* Envelope without the url of the post
EnvelopeWithoutPostUrl(t, h, image, postUrl) ==
  [title |-> t, html |-> h, imageDataUrl |-> image, bloggerPostUrl |-> Undefined]

\* the object of the 200 response
Envelope(t, h, image, postUrl) ==
  [title |-> t, html |-> h, imageDataUrl |-> image, bloggerPostUrl |-> postUrl]

\* publishing unless postToBlogger is false: an absent flag publishes
PublishUnlessFalse(body) == body.postToBlogger # Bool(FALSE)

\* if (body.postToBlogger)
PublishRequested(body) == Truthy(body.postToBlogger)

\* HasGoogleCredentials without the test of the refresh token
HasClientCredentials(e) ==
  /\ Truthy(e.GOOGLE_CLIENT_ID)
  /\ Truthy(e.GOOGLE_CLIENT_SECRET)

\* the check of ensureGoogleAccessToken on its three variables
HasGoogleCredentials(e) ==
  /\ Truthy(e.GOOGLE_CLIENT_ID)
  /\ Truthy(e.GOOGLE_CLIENT_SECRET)
  /\ Truthy(e.GOOGLE_REFRESH_TOKEN)

\* the check of the blog identifier left out of postToBlogger
BlogIdUnchecked(e) == TRUE

\* the check of postToBlogger on the blog identifier
HasBlogId(e) == Truthy(e.BLOGGER_BLOG_ID)

TokenParams(e) ==
  [client_id |-> e.GOOGLE_CLIENT_ID, client_secret |-> e.GOOGLE_CLIENT_SECRET,
   refresh_token |-> e.GOOGLE_REFRESH_TOKEN, grant_type |-> Str(<<"refresh_token">>)]

\* generateImageBase64 resumes with the answer of the image generation; handler
\* builds html and either answers 200 or enters postToBlogger, which checks the
\* blog identifier, enters ensureGoogleAccessToken and awaits the token exchange
generateImageBase64 ==
  /\ pc = "image"
  /\ \/ \E m \in ThrownMessages : Fail("threw", m)
     \/ \E b64 \in ImagePayloads :
          IF ~Truthy(b64)
            THEN Fail("incomplete", Str(<<"Falha ao gerar imagem">>))
            ELSE LET url == Str(<<"data:image/png;base64,">> \o b64.v)
                     doc == BuildHtml(url, title, summaryHtml)
                 IN  /\ imageDataUrl' = url
                     /\ html' = doc
                     /\ UNCHANGED <<sourceText, title, summaryHtml, headers>>
                     /\ IF ~PublishRequested(req.body)
                          THEN /\ calls' = Settle("ok")
                               /\ Respond(200, Envelope(title, doc, url, Undefined))
                        ELSE IF ~HasBlogId(env)
                          THEN /\ calls' = Settle("ok")
                               /\ Catch(Str(<<"BLOGGER_BLOG_ID ausente">>))
                        ELSE IF ~HasGoogleCredentials(env)
                          THEN /\ calls' = Settle("ok")
                               /\ Catch(Str(<<"Variaveis GOOGLE_CLIENT_ID/SECRET/REFRESH_TOKEN ausentes">>))
                        ELSE /\ calls' = Append(Settle("ok"), NewCall("token", TokenParams(env)))
                             /\ pc' = "token"
                             /\ UNCHANGED responses
  /\ UNCHANGED <<req, env, fetched, homeVars, loopVars>>

\* x?.k
OptGet(x, k) == IF x.t \in {"undefined", "null"} THEN Undefined ELSE Get(x.v, k)

\* the TypeError of reading the member k of null
NullRead(k) == Str(<<"Cannot read properties of null (reading '", k, "')">>)

\* the members of the bodies of the token endpoint and of the blog platform
OAuthErrors == {Undefined, Str(<<"invalid_grant">>)}
AccessTokens == {Undefined, Str(<<"ya29.token">>)}
BloggerErrors == {Undefined,
                  Obj([message |-> Str(<<"The caller does not have permission">>)])}
PostUrls == {Undefined, Str(<<"https://blog.example/post.html">>)}

\* what res.json() of the token endpoint resolves to: null or an object
TokenJsons ==
  {Null} \cup {Obj([error |-> e, access_token |-> a]) :
                 e \in OAuthErrors, a \in AccessTokens}

\* what res.json() of the blog platform resolves to: null or an object
PostJsons ==
  {Null} \cup {Obj([error |-> e, url |-> u]) : e \in BloggerErrors, u \in PostUrls}

\* PostRequest with title and content taken from each other's argument
PostRequestSwapped(e, accessToken, t, content) ==
  [endpoint |-> Str(<<"https://www.googleapis.com/blogger/v3/blogs/">>
                      \o ToStr(e.BLOGGER_BLOG_ID)
                      \o <<"/posts/?isDraft=false&fetchImages=true&revert=false">>),
   authorization |-> Str(<<"Bearer ">> \o ToStr(accessToken)),
   kind |-> Str(<<"blogger#post">>),
   title |-> content,
   content |-> t]

\* the request postToBlogger sends to the blog platform
PostRequest(e, accessToken, t, content) ==
  [endpoint |-> Str(<<"https://www.googleapis.com/blogger/v3/blogs/">>
                      \o ToStr(e.BLOGGER_BLOG_ID)
                      \o <<"/posts/?isDraft=false&fetchImages=true&revert=false">>),
   authorization |-> Str(<<"Bearer ">> \o ToStr(accessToken)),
   kind |-> Str(<<"blogger#post">>),
   title |-> t,
   content |-> content]

\* if (!res.ok) of ensureGoogleAccessToken
TokenRejected(status) == ~ResOk(status)

\* a fetch whose status is tested after the body is read: the caller suspends
\* on res.json() whatever the status
FetchAnsweredUntested(st, waitBody) ==
  /\ fetched' = [status |-> st]
  /\ pc' = waitBody
  /\ UNCHANGED <<calls, locals, headers, responses>>

\* ensureGoogleAccessToken resumes with the answer of the token endpoint
ensureGoogleAccessToken_fetch ==
  /\ pc = "token"
  /\ \/ /\ \E m \in ThrownMessages : Fail("threw", m)
        /\ UNCHANGED fetched
     \/ \E st \in Statuses : FetchAnsweredUntested(st, "tokenJson")
  /\ UNCHANGED <<req, env, homeVars, loopVars>>

\* ensureGoogleAccessToken resumes with res.json(), tests the status and returns
\* json.access_token; postToBlogger goes on to the post creation
ensureGoogleAccessToken_json ==
  /\ pc = "tokenJson"
  /\ \/ Fail(StatusAnswer(fetched.status, "notJSON"), Str(<<"Unexpected token in JSON">>))
     \/ \E json \in TokenJsons :
          LET answer == StatusAnswer(fetched.status,
                                     IF Truthy(OptGet(json, "access_token"))
                                       THEN "ok" ELSE "incomplete")
          IN  IF TokenRejected(fetched.status)
                THEN Fail(answer,
                          IF json.t = "null" THEN NullRead("error")
                          ELSE Str(<<"OAuth error: ">>
                                     \o ToStr(Or(Get(json.v, "error"),
                                                 Num(fetched.status)))))
              ELSE IF json.t = "null"
                THEN Fail(answer, NullRead("access_token"))
              ELSE /\ calls' = Append(Settle(answer),
                                 NewCall("post", PostRequest(env, Get(json.v, "access_token"),
                                                             title, html)))
                   /\ pc' = "post"
                   /\ UNCHANGED <<locals, headers, responses>>
  /\ UNCHANGED <<req, env, fetched, homeVars, loopVars>>

\* postToBlogger resumes with the answer of the post creation
postToBlogger_fetch ==
  /\ pc = "post"
  /\ \/ /\ \E m \in ThrownMessages : Fail("threw", m)
        /\ UNCHANGED fetched
     \/ \E st \in Statuses : FetchAnsweredUntested(st, "postJson")
  /\ UNCHANGED <<req, env, homeVars, loopVars>>

\* postToBlogger resumes with res.json(), tests the status and returns the url
\* of the post; handler answers 200
postToBlogger_json ==
  /\ pc = "postJson"
  /\ \/ Fail(StatusAnswer(fetched.status, "notJSON"), Str(<<"Unexpected token in JSON">>))
     \/ \E data \in PostJsons :
          LET answer == StatusAnswer(fetched.status,
                                     IF Truthy(OptGet(data, "url"))
                                       THEN "ok" ELSE "incomplete")
          IN  IF ~ResOk(fetched.status)
                THEN Fail(answer,
                          Str(<<"Blogger error: ">>
                                \o ToStr(Or(OptGet(OptGet(data, "error"), "message"),
                                            Num(fetched.status)))))
              ELSE IF data.t = "null"
                THEN Fail(answer, NullRead("url"))
              ELSE /\ calls' = Settle(answer)
                   /\ Respond(200, Envelope(title, html, imageDataUrl,
                                            Get(data.v, "url")))
                   /\ UNCHANGED <<locals, headers>>
  /\ UNCHANGED <<req, env, fetched, homeVars, loopVars>>

Next ==
  \/ handler
  \/ fetchTextFromLink_fetch
  \/ fetchTextFromLink_text
  \/ transcribeFromUrl_fetch
  \/ transcribeFromUrl_arrayBuffer
  \/ transcribeFromUrl
  \/ summarizeFinancePortuguese
  \/ generateImageBase64
  \/ ensureGoogleAccessToken_fetch
  \/ ensureGoogleAccessToken_json
  \/ postToBlogger_fetch
  \/ postToBlogger_json

Spec == Init /\ [][Next]_vars

\* every awaited collaborator call returns or throws: a suspended handler resumes
SpecFair == Spec /\ WF_vars(Next)

(***************************************************************************)
(* Two requests handled concurrently.  Node runs one callback at a time:   *)
(* the handler variables are those of the call of handler that is running, *)
(* and the other call, suspended at its await, keeps its own in suspended. *)
(* process.env is the module-level state both calls read.                  *)
(***************************************************************************)
RequestIds == {1, 2}

\* the requests of the two concurrent calls: each variant, publishing requested
ConcurrentRequests ==
  {r \in Requests :
     /\ r.method = "POST"
     /\ r.hasBody
     /\ r.body.type \in {Str(<<"text">>), Str(<<"link">>), Str(<<"voice">>)}
     /\ r.body.text = (IF r.body.type = Str(<<"text">>) THEN Str(<<"p">>) ELSE Undefined)
     /\ r.body.link = (IF r.body.type = Str(<<"link">>) THEN Str(<<"p">>) ELSE Undefined)
     /\ r.body.voiceUrl = (IF r.body.type = Str(<<"voice">>) THEN Str(<<"p">>) ELSE Undefined)
     /\ r.body.postToBlogger = Bool(TRUE)}

\* the configuration with every variable set
ConcurrentEnvs == {e \in Envs : \A k \in DOMAIN e : e[k] # Undefined}

\* what the running call of handler holds: req, res and its locals
Closure ==
  [req |-> req, pc |-> pc, calls |-> calls, fetched |-> fetched,
   sourceText |-> sourceText, title |-> title, summaryHtml |-> summaryHtml,
   imageDataUrl |-> imageDataUrl, html |-> html, headers |-> headers,
   responses |-> responses]

\* Resumed with title declared at module level instead of inside handler: a
\* resumed call finds the title that the last summary of any request left
ResumedWithSharedTitle(kept) == [kept EXCEPT !.title = title]

\* what a call of handler finds when it resumes after an await: the req, res and
\* locals it had when it suspended
Resumed(kept) == kept

\* the event loop leaves the running call at its await and resumes the other
eventLoop ==
  /\ suspended' = Closure
  /\ running' = 3 - running
  /\ req' = Resumed(suspended).req
  /\ pc' = Resumed(suspended).pc
  /\ calls' = Resumed(suspended).calls
  /\ fetched' = Resumed(suspended).fetched
  /\ sourceText' = Resumed(suspended).sourceText
  /\ title' = Resumed(suspended).title
  /\ summaryHtml' = Resumed(suspended).summaryHtml
  /\ imageDataUrl' = Resumed(suspended).imageDataUrl
  /\ html' = Resumed(suspended).html
  /\ headers' = Resumed(suspended).headers
  /\ responses' = Resumed(suspended).responses
  /\ UNCHANGED <<env, homeVars>>

NextConcurrent ==
  \/ handler
  \/ fetchTextFromLink_fetch
  \/ fetchTextFromLink_text
  \/ transcribeFromUrl_fetch
  \/ transcribeFromUrl_arrayBuffer
  \/ transcribeFromUrl
  \/ summarizeFinancePortuguese
  \/ generateImageBase64
  \/ ensureGoogleAccessToken_fetch
  \/ ensureGoogleAccessToken_json
  \/ postToBlogger_fetch
  \/ postToBlogger_json
  \/ eventLoop

\* the place of a variant in the type InputBody
VariantIndex(type) ==
  CASE type = Str(<<"text">>) -> 1
    [] type = Str(<<"voice">>) -> 2
    [] type = Str(<<"link">>) -> 3

\* two requests of different variants have arrived and neither has started;
\* request 1 is the one of the earlier variant
InitConcurrent ==
  /\ InitHandler
  /\ req \in ConcurrentRequests
  /\ env \in ConcurrentEnvs
  /\ InitHome
  /\ running = 1
  /\ suspended \in {StartOf(r) : r \in ConcurrentRequests}
  /\ VariantIndex(req.body.type) < VariantIndex(suspended.req.body.type)

SpecConcurrent == InitConcurrent /\ [][NextConcurrent]_vars

(***************************************************************************)
(* Presentation Client: Home and its handleSubmit                          *)
(***************************************************************************)
InputTypes == {"text", "voice", "link"}

\* what the operator can type into a field
FieldTexts == {<<>>, <<"a">>}

\* the reply of fetch('/api/process'): res.ok and the body as JSON tokens
ReplyBodies == {<<"not json">>, <<"null">>, <<"{", "}">>, <<"{", "error", "}">>,
                <<"{", "title", "html", "}">>}
Replies == [ok : BOOLEAN, body : ReplyBodies]

\* onChange of the select
setInputType ==
  /\ \E v \in InputTypes : inputType' = v
  /\ UNCHANGED <<text, voiceUrl, link, posting, result, error, cpc, sent, reply>>
  /\ UNCHANGED <<handlerVars, loopVars>>

\* onChange of the textarea, which is rendered for inputType 'text' only
setText ==
  /\ inputType = "text"
  /\ \E v \in FieldTexts : text' = v
  /\ UNCHANGED <<inputType, voiceUrl, link, posting, result, error, cpc, sent, reply>>
  /\ UNCHANGED <<handlerVars, loopVars>>

setVoiceUrl ==
  /\ inputType = "voice"
  /\ \E v \in FieldTexts : voiceUrl' = v
  /\ UNCHANGED <<inputType, text, link, posting, result, error, cpc, sent, reply>>
  /\ UNCHANGED <<handlerVars, loopVars>>

setLink ==
  /\ inputType = "link"
  /\ \E v \in FieldTexts : link' = v
  /\ UNCHANGED <<inputType, text, voiceUrl, posting, result, error, cpc, sent, reply>>
  /\ UNCHANGED <<handlerVars, loopVars>>

\* SubmitBody with the three fields sent whatever the selected variant
SubmitBodyAllFields(type, t, v, l) ==
  [type |-> Str(<<type>>), text |-> Str(t), voiceUrl |-> Str(v), link |-> Str(l),
   postToBlogger |-> Bool(TRUE)]

\* the object handleSubmit hands to JSON.stringify
SubmitBody(type, t, v, l) ==
  [type |-> Str(<<type>>),
   text |-> IF type = "text" THEN Str(t) ELSE Undefined,
   voiceUrl |-> IF type = "voice" THEN Str(v) ELSE Undefined,
   link |-> IF type = "link" THEN Str(l) ELSE Undefined,
   postToBlogger |-> Bool(TRUE)]

\* handleSubmit without setError(null) and setResult(null)
handleSubmitWithoutReset ==
  /\ ~posting
  /\ cpc = "idle"
  /\ posting' = TRUE
  /\ sent' = JSONstringify(SubmitBody(inputType, text, voiceUrl, link))
  /\ cpc' = "fetch"
  /\ reply' = NoReply
  /\ UNCHANGED <<inputType, text, voiceUrl, link, error, result>>
  /\ UNCHANGED <<handlerVars, loopVars>>

\* handleSubmit up to its fetch, whose answer res is yet to come; the button is
\* disabled while posting
handleSubmit ==
  /\ ~posting
  /\ cpc = "idle"
  /\ posting' = TRUE
  /\ error' = Null
  /\ result' = Null
  /\ sent' = JSONstringify(SubmitBody(inputType, text, voiceUrl, link))
  /\ cpc' = "fetch"
  /\ reply' = NoReply
  /\ UNCHANGED <<inputType, text, voiceUrl, link>>
  /\ UNCHANGED <<handlerVars, loopVars>>

\* handleSubmit resumes with the reply of fetch, or ends with its rejection
handleSubmit_fetch ==
  /\ cpc = "fetch"
  /\ \/ /\ cpc' = "idle"
        /\ UNCHANGED reply
     \/ \E r \in Replies :
          /\ reply' = r
          /\ cpc' = IF ~r.ok THEN "errorBody" ELSE "body"
  /\ UNCHANGED <<inputType, text, voiceUrl, link, posting, result, error, sent>>
  /\ UNCHANGED <<handlerVars, loopVars>>

\* the !res.ok branch resumes with res.json().catch(() => ({})): a body that does
\* not parse reads as {}; setPosting(false) runs, then body.error is read, which
\* throws for the body null and leaves error as it is
handleSubmit_errorBody ==
  /\ cpc = "errorBody"
  /\ LET parsed == JSONparse(reply.body)
     IN  /\ posting' = FALSE
         /\ IF parsed.kind = "null"
              THEN UNCHANGED error
              ELSE error' = Or(Get(parsed.obj, "error"), Str(<<"Erro ao processar.">>))
  /\ cpc' = "idle"
  /\ UNCHANGED <<inputType, text, voiceUrl, link, result, sent, reply>>
  /\ UNCHANGED <<handlerVars, loopVars>>

\* handleSubmit resumes with res.json() of a success reply
handleSubmit_body ==
  /\ cpc = "body"
  /\ LET parsed == JSONparse(reply.body)
     IN  IF parsed.kind = "error"
           THEN UNCHANGED <<posting, result>>
           ELSE /\ posting' = FALSE
                /\ result' = IF parsed.kind = "null" THEN Null ELSE Obj(parsed.obj)
  /\ cpc' = "idle"
  /\ UNCHANGED <<inputType, text, voiceUrl, link, error, sent, reply>>
  /\ UNCHANGED <<handlerVars, loopVars>>

NextHome ==
  \/ setInputType
  \/ setText
  \/ setVoiceUrl
  \/ setLink
  \/ handleSubmit
  \/ handleSubmit_fetch
  \/ handleSubmit_errorBody
  \/ handleSubmit_body

\* the form alone, with the endpoint's replies drawn from Replies
InitHomeAlone ==
  /\ InitHome
  /\ InitLoop
  /\ req = [method |-> "POST", hasBody |-> FALSE, body |-> NoBody]
  /\ env \in {[GOOGLE_CLIENT_ID |-> Undefined, GOOGLE_CLIENT_SECRET |-> Undefined,
               GOOGLE_REFRESH_TOKEN |-> Undefined, BLOGGER_BLOG_ID |-> Undefined]}
  /\ pc = "start"
  /\ calls = <<>>
  /\ fetched = NoResponse
  /\ sourceText = Undefined
  /\ title = Undefined
  /\ summaryHtml = Undefined
  /\ imageDataUrl = Undefined
  /\ html = Undefined
  /\ headers = {}
  /\ responses = <<>>

SpecHome == InitHomeAlone /\ [][NextHome]_vars

(***************************************************************************)
(* Vocabulary of the properties                                            *)
(***************************************************************************)
Done == pc = "done"

\* the response of a finished request
Response == responses[1]

Called(name) == \E i \in DOMAIN calls : calls[i].name = name

Answered(name, answers) ==
  \E i \in DOMAIN calls : calls[i].name = name /\ calls[i].answer \in answers

IsPost == req.method = "POST"

Variants == {Str(<<"text">>), Str(<<"link">>), Str(<<"voice">>)}

\* the payload field of the request's variant
PayloadOf(body) ==
  IF body.type = Str(<<"text">>) THEN body.text
  ELSE IF body.type = Str(<<"link">>) THEN body.link
  ELSE body.voiceUrl

AbsentOrEmpty(x) == x = Undefined \/ x = Str(<<>>)

\* a body with one of the three variants and a non-empty matching payload
ValidPayload ==
  /\ req.hasBody
  /\ req.body.type \in Variants
  /\ ~AbsentOrEmpty(PayloadOf(req.body))

ErrorOnly(status) ==
  /\ Len(responses) = 1
  /\ Response.status = status
  /\ DOMAIN Response.body = {"error"}
  /\ Response.body.error.t = "string"
  /\ Response.body.error.v # <<>>

\* the requests C1 is about
C1_Case ==
  /\ IsPost
  /\ \/ ~req.hasBody
     \/ AbsentOrEmpty(req.body.type)
     \/ req.body.type \in Variants /\ AbsentOrEmpty(PayloadOf(req.body))

(***************************************************************************)
(* C1: a POST whose body has no type, or whose type is text, link or voice *)
(* while the matching payload field is absent or empty, is answered 400    *)
(* with an error message, and no collaborator is called.                   *)
(***************************************************************************)
C1_MissingInputIs400 ==
  C1_Case => /\ calls = <<>>
             /\ pc \in {"start", "done"}
             /\ Done => ErrorOnly(400)

C1_Witness ==
  /\ Done
  /\ IsPost
  /\ req.body.type = Str(<<"voice">>)
  /\ req.body.voiceUrl = Str(<<>>)
  /\ req.body.text = Str(<<"p">>)
  /\ Response.status = 400

\* a call whose stage failed
StageFailed(c) ==
  \/ c.answer \in {"threw", "status", "notJSON"}
  \/ c.name \in {"chat", "image"} /\ c.answer = "incomplete"

(***************************************************************************)
(* C2: whenever a stage fails (a fetch answered with a non-success status, *)
(* transcription, summarization, image generation, token exchange, post    *)
(* creation), no later collaborator is called and the response is a 500    *)
(* that carries an error message only.  A summarization fails when the     *)
(* chat answer is no JSON or lacks title or html.                          *)
(***************************************************************************)
C2_FailureStopsPipeline ==
  \A i \in DOMAIN calls :
    StageFailed(calls[i]) => /\ i = Len(calls)
                             /\ Done
                             /\ ErrorOnly(500)

(***************************************************************************)
(* C3: a chat answer that is no valid JSON, or valid JSON without the key  *)
(* title or the key html, ends the request in a 500 and no image           *)
(* generation is called.                                                   *)
(***************************************************************************)
C3_BadSummaryIs500 ==
  Answered("chat", {"notJSON", "incomplete"}) =>
    /\ ~Called("image")
    /\ Done
    /\ ErrorOnly(500)

\* publishing not requested
C4_Case == req.body.postToBlogger \in {Undefined, Bool(FALSE)}

(***************************************************************************)
(* C4: when postToBlogger is false or absent, neither the token endpoint   *)
(* nor the post creation is called, and the response has no bloggerPostUrl.*)
(***************************************************************************)
C4_NoPublishUnlessRequested ==
  C4_Case => /\ ~Called("token")
             /\ ~Called("post")
             /\ Done => "bloggerPostUrl" \notin DOMAIN Response.body

C4_Witness ==
  /\ Done
  /\ C4_Case
  /\ req.body.postToBlogger = Bool(FALSE)
  /\ Response.status = 200
  /\ Answered("image", {"ok"})

\* a configuration value that is not set
MissingValue(x) == x = Undefined \/ x = Str(<<>>)

\* publishing requested while a credential is missing
C5_Case ==
  /\ IsPost
  /\ req.body.postToBlogger = Bool(TRUE)
  /\ \/ MissingValue(env.GOOGLE_CLIENT_ID)
     \/ MissingValue(env.GOOGLE_CLIENT_SECRET)
     \/ MissingValue(env.GOOGLE_REFRESH_TOKEN)

GoogleConfigMessage == Str(<<"Variaveis GOOGLE_CLIENT_ID/SECRET/REFRESH_TOKEN ausentes">>)
BlogConfigMessage == Str(<<"BLOGGER_BLOG_ID ausente">>)

(***************************************************************************)
(* C5: when postToBlogger is true and one of GOOGLE_CLIENT_ID,             *)
(* GOOGLE_CLIENT_SECRET, GOOGLE_REFRESH_TOKEN is missing, no token         *)
(* exchange and no post creation is sent, the request never ends in a 200, *)
(* and once the image is generated (the publish step is reached) it ends   *)
(* in a 500 with a configuration-error message.                            *)
(***************************************************************************)
C5_MissingCredentialsIs500 ==
  C5_Case =>
    /\ ~Called("token")
    /\ ~Called("post")
    /\ Done => Response.status # 200
    /\ Answered("image", {"ok"}) =>
         /\ Done
         /\ ErrorOnly(500)
         /\ Response.body.error =
              IF MissingValue(env.BLOGGER_BLOG_ID) THEN BlogConfigMessage
              ELSE GoogleConfigMessage

C5_Witness ==
  /\ C5_Case
  /\ Answered("image", {"ok"})
  /\ ~MissingValue(env.BLOGGER_BLOG_ID)
  /\ ~MissingValue(env.GOOGLE_CLIENT_ID)
  /\ ~MissingValue(env.GOOGLE_CLIENT_SECRET)
  /\ Done
  /\ Response.body.error = GoogleConfigMessage

\* the collaborators a request involves
Involved ==
  (IF req.body.type = Str(<<"link">>) THEN {"linkFetch"}
   ELSE IF req.body.type = Str(<<"voice">>) THEN {"audioFetch", "transcription"}
   ELSE {})
  \cup {"chat", "image"}
  \cup (IF req.body.postToBlogger = Bool(TRUE) THEN {"token", "post"} ELSE {})

\* a valid request all of whose collaborators answered successfully
C6_Case ==
  /\ IsPost
  /\ ValidPayload
  /\ \A n \in Involved : Answered(n, {"ok"})

(***************************************************************************)
(* C6: for each of the three variants with a valid payload, when every     *)
(* collaborator of the request's pipeline answered successfully, the       *)
(* response is a 200 with title, html and imageDataUrl, and it has         *)
(* bloggerPostUrl exactly when postToBlogger was true; no response has     *)
(* bloggerPostUrl when publishing was not requested.                       *)
(***************************************************************************)
C6_SuccessIs200 ==
  /\ C6_Case =>
       /\ Done
       /\ Len(responses) = 1
       /\ Response.status = 200
       /\ {"title", "html", "imageDataUrl"} \subseteq DOMAIN Response.body
       /\ "bloggerPostUrl" \in DOMAIN Response.body
            <=> req.body.postToBlogger = Bool(TRUE)
  /\ (Done /\ "bloggerPostUrl" \in DOMAIN Response.body)
       => req.body.postToBlogger = Bool(TRUE)

C6_Witness ==
  /\ C6_Case
  /\ req.body.type = Str(<<"voice">>)
  /\ req.body.postToBlogger = Bool(TRUE)
  /\ Done
  /\ "bloggerPostUrl" \in DOMAIN Response.body

(***************************************************************************)
(* C7: a request whose method is not POST is answered 405 with the header  *)
(* Allow: POST, whatever its body, and no collaborator is called.          *)
(***************************************************************************)
C7_NonPostIs405 ==
  ~IsPost => /\ calls = <<>>
             /\ pc \in {"start", "done"}
             /\ Done => /\ ErrorOnly(405)
                        /\ <<"Allow", <<"POST">>>> \in headers

C7_Witness ==
  /\ ~IsPost
  /\ ValidPayload
  /\ req.body.postToBlogger = Bool(TRUE)
  /\ Done
  /\ Response.status = 405

\* a type that is present and is none of the three variants
OtherType ==
  /\ req.hasBody
  /\ ~AbsentOrEmpty(req.body.type)
  /\ req.body.type \notin Variants

(***************************************************************************)
(* C8: the chat completion is called only for a request whose type is one  *)
(* of text, link, voice and whose matching payload field is present; a     *)
(* POST body with any other type is answered 400 and no collaborator is    *)
(* called.                                                                 *)
(***************************************************************************)
C8_InvalidVariantIs400 ==
  /\ Called("chat") => ValidPayload
  /\ (IsPost /\ OtherType) => /\ calls = <<>>
                              /\ Done => ErrorOnly(400)

PayloadKeys == {"text", "voiceUrl", "link"}

FieldOf(type) == IF type = "voice" THEN "voiceUrl" ELSE type

Typed(type) ==
  IF type = "text" THEN text ELSE IF type = "voice" THEN voiceUrl ELSE link

(***************************************************************************)
(* C9: every request the form sends on submit has postToBlogger true and   *)
(* carries, of the three payload fields, the one of the selected variant   *)
(* only, with the value typed into it; the two others are absent whatever  *)
(* was typed into them.                                                    *)
(***************************************************************************)
C9_SubmitSendsSelectedOnly ==
  [][(cpc = "idle" /\ cpc' = "fetch") =>
       /\ "postToBlogger" \in DOMAIN sent'
       /\ sent'.postToBlogger = Bool(TRUE)
       /\ sent'.type = Str(<<inputType>>)
       /\ DOMAIN sent' \cap PayloadKeys = {FieldOf(inputType)}
       /\ sent'[FieldOf(inputType)] = Str(Typed(inputType))]_vars

C9_Witness ==
  /\ cpc = "fetch"
  /\ inputType = "link"
  /\ sent.type = Str(<<"link">>)
  /\ text = <<"a">>
  /\ voiceUrl = <<"a">>
  /\ link = <<>>

\* the place of a collaborator in the pipeline
Rank(name) ==
  CASE name \in {"linkFetch", "audioFetch"} -> 1
    [] name = "transcription" -> 2
    [] name = "chat" -> 3
    [] name = "image" -> 4
    [] name = "token" -> 5
    [] name = "post" -> 6

\* the answers of a call that returned to its caller
Returned == {"ok", "incomplete"}

(***************************************************************************)
(* C10: within a request the collaborators are called in the order fetch,  *)
(* transcription (voice), chat completion, image generation, token         *)
(* exchange, post creation; a call starts only after the previous call     *)
(* returned without an error or a non-success status; the image generation *)
(* starts only after the chat completion returned, and a publish call only *)
(* after the image generation returned an image.                           *)
(***************************************************************************)
C10_CallsInOrder ==
  /\ \A i, j \in DOMAIN calls : i < j => Rank(calls[i].name) < Rank(calls[j].name)
  /\ \A i \in DOMAIN calls : i < Len(calls) => calls[i].answer \in Returned
  /\ Called("transcription") => Answered("audioFetch", {"ok"})
  /\ (Called("chat") /\ req.body.type = Str(<<"link">>)) => Answered("linkFetch", Returned)
  /\ (Called("chat") /\ req.body.type = Str(<<"voice">>))
       => Answered("transcription", Returned)
  /\ Called("image") => Answered("chat", Returned)
  /\ Called("token") => Answered("image", {"ok"})
  /\ Called("post") => Answered("token", Returned)

C10_Witness ==
  /\ Len(calls) = 6
  /\ calls[1].name = "audioFetch"
  /\ calls[6].name = "post"
  /\ calls[6].answer = "pending"

(***************************************************************************)
(* C11: no step is retried: within a request each collaborator (link       *)
(* fetch, audio download, transcription, chat completion, image            *)
(* generation, token exchange, post creation) is called at most once,      *)
(* whether its call succeeds or fails.                                     *)
(***************************************************************************)
C11_NoRetry ==
  \A i, j \in DOMAIN calls : calls[i].name = calls[j].name => i = j

C11_Witness ==
  /\ Done
  /\ Len(calls) = 5
  /\ calls[1].name = "audioFetch"
  /\ calls[5].name = "token"
  /\ calls[5].answer = "status"

\* the message of a 500 that ensureGoogleAccessToken raised on a rejection
IsOAuthError(message) ==
  /\ message.t = "string"
  /\ Len(message.v) = 2
  /\ message.v[1] = "OAuth error: "

(***************************************************************************)
(* C12: a post creation is sent only after a token exchange of the same    *)
(* request was answered with a success status; when the token endpoint     *)
(* answers with a non-success status the request ends in a 500 with an     *)
(* OAuth error message and no post creation is sent.                       *)
(***************************************************************************)
C12_PostOnlyAfterToken ==
  /\ \A j \in DOMAIN calls :
       calls[j].name = "post" =>
         \E i \in 1..(j - 1) : /\ calls[i].name = "token"
                               /\ calls[i].answer \in Returned
  /\ Answered("token", {"status"}) =>
       /\ ~Called("post")
       /\ Done
       /\ ErrorOnly(500)
       /\ IsOAuthError(Response.body.error)

\* publishing requested with the three credentials set and no blog identifier
C13_Case ==
  /\ IsPost
  /\ req.body.postToBlogger = Bool(TRUE)
  /\ ~MissingValue(env.GOOGLE_CLIENT_ID)
  /\ ~MissingValue(env.GOOGLE_CLIENT_SECRET)
  /\ ~MissingValue(env.GOOGLE_REFRESH_TOKEN)
  /\ MissingValue(env.BLOGGER_BLOG_ID)

(***************************************************************************)
(* C13, as claimed: when publishing is requested with the three OAuth      *)
(* credentials present and the blog identifier missing, a token exchange   *)
(* is made before the error for the missing blog identifier is reported,   *)
(* and no post creation is made.                                           *)
(***************************************************************************)
C13_TokenBeforeBlogIdError ==
  (C13_Case /\ Done /\ Response.body = [error |-> BlogConfigMessage]) =>
    /\ Called("token")
    /\ ~Called("post")

(***************************************************************************)
(* C13, amended: when publishing is requested with the three OAuth         *)
(* credentials present and the blog identifier missing, the error for the  *)
(* missing blog identifier is reported before any token exchange: once the *)
(* image is generated the request ends in a 500 with that message, and     *)
(* neither a token exchange nor a post creation is made.                   *)
(***************************************************************************)
C13_BlogIdErrorBeforeToken ==
  C13_Case =>
    /\ ~Called("token")
    /\ ~Called("post")
    /\ Answered("image", {"ok"}) =>
         /\ Done
         /\ ErrorOnly(500)
         /\ Response.body.error = BlogConfigMessage

C13_Witness ==
  /\ C13_Case
  /\ Answered("image", {"ok"})
  /\ Done
  /\ Response.status = 500
  /\ Response.body.error = BlogConfigMessage

(***************************************************************************)
(* C14: for every variant the chat completion is called with a non-empty   *)
(* plain-text string only; a link whose page has no text, or a             *)
(* transcription with an empty or missing transcript, never leads to a     *)
(* call of the chat completion.                                            *)
(***************************************************************************)
C14_NormalizedContentNonEmpty ==
  (ValidPayload /\ Called("chat")) =>
    /\ sourceText.t = "string"
    /\ sourceText.v # <<>>
    /\ ~Answered("linkFetch", {"incomplete"})
    /\ ~Answered("transcription", {"incomplete"})

\* what request i holds: the running call's variables, or what the suspended
\* call finds when it resumes
View(i) == IF running = i THEN Closure ELSE Resumed(suspended)

(***************************************************************************)
(* C15: requests do not interfere.  With two requests handled concurrently *)
(* under any interleaving of their stages, the configuration is never      *)
(* written, and whatever a request holds (its position, its collaborator   *)
(* calls, its locals, its response) changes only by a step of its own call *)
(* of handler, which is a step of the handler running alone on that        *)
(* request, its own answers and the configuration; a step of one request   *)
(* leaves the other as it is.                                              *)
(***************************************************************************)
C15_NoInterference ==
  [][/\ env' = env
     /\ \A i \in RequestIds :
          View(i)' # View(i) => /\ running = i
                                /\ running' = i
                                /\ Next
                                /\ \A j \in RequestIds \ {i} : View(j)' = View(j)]_vars

C15_Witness ==
  /\ View(1).pc = "done"
  /\ View(1).responses[1].status = 200
  /\ View(1).title = Str(<<"Titulo">>)
  /\ View(2).pc = "postJson"
  /\ View(2).title = Undefined
  /\ View(2).req.body.type = Str(<<"link">>)
  /\ Len(View(2).calls) = 5

(***************************************************************************)
(* C16: the handler sends exactly one response per request: provided every *)
(* awaited call returns or throws, the request ends, and on every path     *)
(* (405, 400, 500, 200) it ends with one response, no response is sent     *)
(* while the request is in progress, and none after the first.             *)
(***************************************************************************)
C16_ExactlyOneResponse ==
  /\ [](/\ Len(responses) <= 1
        /\ Done <=> Len(responses) = 1
        /\ Done => Response.status \in {200, 400, 405, 500})
  /\ <>Done

C16_Witness ==
  /\ Done
  /\ Len(responses) = 1
  /\ Response.status = 200
  /\ Answered("post", {"ok"})

\* s occurs in h from position i on
OccursAt(s, h, i) == i + Len(s) - 1 <= Len(h) /\ SubSeq(h, i, i + Len(s) - 1) = s

\* the call of the post creation
PostCall == calls[CHOOSE i \in DOMAIN calls : calls[i].name = "post"]

(***************************************************************************)
(* C17: when publishing is requested and succeeds, the content submitted   *)
(* to the blog platform is the html of the 200 response, that html holds   *)
(* the generated image data URL and, after it, the summarizer's html, and  *)
(* the title submitted is the title of the response.                       *)
(***************************************************************************)
C17_PublishedIsReturned ==
  (Done /\ Response.status = 200 /\ Called("post")) =>
    /\ PostCall.arg.content = Response.body.html
    /\ PostCall.arg.title = Get(Response.body, "title")
    /\ \E i, j \in 1..Len(Response.body.html.v) :
         /\ OccursAt(Response.body.imageDataUrl.v, Response.body.html.v, i)
         /\ OccursAt(ToStr(summaryHtml), Response.body.html.v, j)
         /\ i + Len(Response.body.imageDataUrl.v) <= j

C17_Witness ==
  /\ Done
  /\ Response.status = 200
  /\ Answered("post", {"ok"})
  /\ Answered("chat", {"ok"})
  /\ PostCall.arg.title = Str(<<"Titulo">>)
  /\ "bloggerPostUrl" \in DOMAIN Response.body

(***************************************************************************)
(* C18: after every submit the submission-in-flight flag is reset: once    *)
(* handleSubmit has ended, whether the endpoint answered with success,     *)
(* with an error status or with an unparsable body, or the network request *)
(* failed, posting is false and the submit button is enabled again.        *)
(***************************************************************************)
C18_PostingIsReset == cpc = "idle" => ~posting

\* a reply as the endpoint sends it, every response of handler being a JSON
\* object, or an error reply whose body is no JSON, which reads as {}
C19_Replied ==
  /\ cpc = "idle"
  /\ reply # NoReply
  /\ \/ JSONparse(reply.body).kind = "object"
     \/ ~reply.ok /\ JSONparse(reply.body).kind = "error"

(***************************************************************************)
(* C19: result and error are never both set; while a submission is in      *)
(* flight (posting is true) both are null; after a submit completed with a *)
(* response of the endpoint exactly one of them is set: error for a        *)
(* non-success status, result otherwise.                                   *)
(***************************************************************************)
C19_ExactlyOneSet ==
  /\ ~(result # Null /\ error # Null)
  /\ posting => (result = Null /\ error = Null)
  /\ C19_Replied =>
       /\ ~posting
       /\ IF reply.ok THEN result = Obj(JSONparse(reply.body).obj) /\ error = Null
                      ELSE error # Null /\ result = Null

C19_Witness ==
  /\ C19_Replied
  /\ ~reply.ok
  /\ reply.body = <<"{", "error", "}">>
  /\ error = Str(<<"Texto ausente">>)
  /\ result = Null

====
